---- MODULE Spec2Model ----
(***************************************************************************)
(* Model of the FlowMind AI front end: the diagram page (Diagram.jsx), the *)
(* local flowchart parser (utils/flowchartParser.js) and the rendering     *)
(* normalisation of MermaidRenderer.jsx.                                   *)
(*                                                                         *)
(* JavaScript strings are modelled by TLA+ strings; a character is a       *)
(* string of length one.  The value null is the sentinel Null.  The code   *)
(* units of the decorative-glyph character class of cleanMermaidCode are   *)
(* written with the stand-in character "@".                                *)
(***************************************************************************)
EXTENDS Integers, Sequences, FiniteSets, TLC

(***************************************************************************)
(* Values and character classes                                            *)
(***************************************************************************)
Null == "<null>"

\* JavaScript truthiness of a string-or-null value
Truthy(v) == v # Null /\ v # ""

\* the characters matched by \s and removed by String.prototype.trim
WhiteSpace == {" ", "\t", "\n", "\r"}

\* the characters matched by \w
WordChars ==
  {"a","b","c","d","e","f","g","h","i","j","k","l","m","n","o","p","q","r",
   "s","t","u","v","w","x","y","z","A","B","C","D","E","F","G","H","I","J",
   "K","L","M","N","O","P","Q","R","S","T","U","V","W","X","Y","Z","0","1",
   "2","3","4","5","6","7","8","9","_"}

\* the character class of the glyph-stripping regex of cleanMermaidCode
Glyphs == {"@"}

(***************************************************************************)
(* String primitives of the JavaScript runtime                             *)
(***************************************************************************)
MinOf(S) == CHOOSE m \in S : \A n \in S : m <= n

MaxOf(S) == CHOOSE m \in S : \A n \in S : m >= n

\* s.substring(i - 1, j) for 1-based i and j, clamped to the string as
\* substring clamps
Slice(s, i, j) ==
  LET lo == IF i < 1 THEN 1 ELSE i
      hi == IF j > Len(s) THEN Len(s) ELSE j
  IN  IF lo > hi THEN "" ELSE SubSeq(s, lo, hi)

\* s.charAt(i - 1)
CharAt(s, i) == Slice(s, i, i)

\* s.substring(i - 1)
From(s, i) == Slice(s, i, Len(s))

\* s.includes(t)
Includes(s, t) ==
  \E i \in 1..(Len(s) - Len(t) + 1) : Slice(s, i, i + Len(t) - 1) = t

\* s.startsWith(t)
StartsWith(s, t) == Len(s) >= Len(t) /\ Slice(s, 1, Len(t)) = t

\* the number of white space characters s begins with
LeadingSpace(s) ==
  CHOOSE k \in 0..Len(s) :
    /\ \A i \in 1..k : CharAt(s, i) \in WhiteSpace
    /\ k = Len(s) \/ CharAt(s, k + 1) \notin WhiteSpace

\* the number of white space characters s ends with
TrailingSpace(s) ==
  CHOOSE k \in 0..Len(s) :
    /\ \A i \in 1..k : CharAt(s, Len(s) + 1 - i) \in WhiteSpace
    /\ k = Len(s) \/ CharAt(s, Len(s) - k) \notin WhiteSpace

\* s.trim()
Trim(s) ==
  IF LeadingSpace(s) = Len(s) THEN ""
  ELSE Slice(s, LeadingSpace(s) + 1, Len(s) - TrailingSpace(s))

\* s.repeat(n)
RECURSIVE Repeat(_, _)
Repeat(s, n) ==
  IF n = 0 THEN ""
  ELSE LET half == Repeat(s, n \div 2)
       IN  half \o half \o (IF n % 2 = 1 THEN s ELSE "")

\* s.split(sep) for a separator that is one character out of the set seps
RECURSIVE Split(_, _)
Split(s, seps) ==
  LET pos == {i \in 1..Len(s) : CharAt(s, i) \in seps}
  IN  IF pos = {} THEN <<s>>
      ELSE <<Slice(s, 1, MinOf(pos) - 1)>> \o Split(From(s, MinOf(pos) + 1), seps)

\* lines.join(sep)
RECURSIVE Join(_, _)
Join(lines, sep) ==
  IF lines = <<>> THEN ""
  ELSE IF Len(lines) = 1 THEN lines[1]
  ELSE lines[1] \o sep \o Join(Tail(lines), sep)

\* s.replace(/[set]/g, by): every character of the set replaced by the string by
RECURSIVE ReplaceChars(_, _, _)
ReplaceChars(s, set, by) ==
  LET hits == {i \in 1..Len(s) : CharAt(s, i) \in set}
  IN  IF hits = {} THEN s
      ELSE Slice(s, 1, MinOf(hits) - 1) \o by
             \o ReplaceChars(From(s, MinOf(hits) + 1), set, by)

\* the elements of a sequence that satisfy pred, in order (Array.prototype.filter)
RECURSIVE FilterNonEmpty(_)
FilterNonEmpty(seq) ==
  IF seq = <<>> THEN <<>>
  ELSE (IF Len(seq[1]) > 0 THEN <<seq[1]>> ELSE <<>>) \o FilterNonEmpty(Tail(seq))

(***************************************************************************)
(* Diagram.jsx: validateMermaidSyntax                                      *)
(***************************************************************************)
\* the test of line 107 on a trimmed line
HasNodeOrEdgeSyntax(trimmed) ==
  \/ Includes(trimmed, "[")
  \/ Includes(trimmed, "(")
  \/ Includes(trimmed, "{")
  \/ Includes(trimmed, "-->")

\* a variant of the test of line 105 that does not skip the graph and
\* classDef lines
IsInspectedLineNoSkip(trimmed) == trimmed # ""

\* the test of line 105: which lines the loop inspects

IsInspectedLine(trimmed) ==
  /\ trimmed # ""
  /\ ~StartsWith(trimmed, "graph")
  /\ ~StartsWith(trimmed, "classDef")

\* the for loop of lines 103-111, from line i on, with the flag so far
RECURSIVE HasNodesLoop(_, _, _)
HasNodesLoop(lines, i, hasNodes) ==
  IF i > Len(lines) THEN hasNodes
  ELSE LET trimmed == Trim(lines[i])
       IN  HasNodesLoop(lines, i + 1,
             IF IsInspectedLine(trimmed) /\ HasNodeOrEdgeSyntax(trimmed)
             THEN TRUE ELSE hasNodes)

ValidateMermaidSyntax(mermaidCode) ==
  IF ~Truthy(mermaidCode) THEN FALSE
  ELSE IF ~Includes(mermaidCode, "graph TD") /\ ~Includes(mermaidCode, "graph LR")
       THEN FALSE
  ELSE HasNodesLoop(Split(mermaidCode, {"\n"}), 1, FALSE)

(***************************************************************************)
(* Diagram.jsx: cleanMermaidCode                                           *)
(***************************************************************************)
FixedMinimalDiagram ==
  "graph TD\n    A[\"Start\"] --> B[\"Process\"]\n    B --> C[\"End\"]\n    classDef default fill:#f9f9f9,stroke:#333,stroke-width:2px"

\* lines 136-138: strip the glyphs of one line, then trim it
CleanLine(line) == Trim(ReplaceChars(line, Glyphs, ""))

\* the for loop of lines 134-144
RECURSIVE CleanLoop(_, _, _)
CleanLoop(lines, i, cleanedLines) ==
  IF i > Len(lines) THEN cleanedLines
  ELSE LET cleaned == CleanLine(lines[i])
       IN  CleanLoop(lines, i + 1,
             IF \/ cleaned # ""
                \/ (Len(cleanedLines) = 1 /\ StartsWith(cleanedLines[1], "graph"))
             THEN Append(cleanedLines, cleaned) ELSE cleanedLines)

\* the test of line 147
NeedsSubstitute(cleanedLines) ==
  Len(cleanedLines) = 0 \/ ~StartsWith(cleanedLines[1], "graph")

CleanMermaidCode(mermaidCode) ==
  IF ~Truthy(mermaidCode) THEN Null
  ELSE LET cleanedLines == CleanLoop(Split(mermaidCode, {"\n"}), 1, <<>>)
       IN  IF NeedsSubstitute(cleanedLines) THEN FixedMinimalDiagram
           ELSE Join(cleanedLines, "\n")

(***************************************************************************)
(* flowchartParser.js: the phrases, sanitizeForMermaid and                 *)
(* generateFallbackFlowchart                                               *)
(***************************************************************************)
MaxPhrases == 5

MaxLabelLen == 30

\* a variant of line 116 that forgets the index: String.fromCharCode(65)
NodeIdOfFirst(i) == "A"

\* String.fromCharCode(65 + i)
NodeId(i) == CharAt("ABCDEFGHIJKLMNOPQRSTUVWXYZ", i + 1)

RECURSIVE TrimAll(_)
TrimAll(seq) ==
  IF seq = <<>> THEN <<>> ELSE <<Trim(seq[1])>> \o TrimAll(Tail(seq))

\* line 12: the characters of the class [,.;:]
Separators == {",", ".", ";", ":"}

\* a variant of lines 12-14 without the map of line 13
ClausesUntrimmed(input) == FilterNonEmpty(Split(input, Separators))

\* lines 12-14 of parseFlowchartInput: split, trim, drop the empty ones
Clauses(input) == FilterNonEmpty(TrimAll(Split(input, Separators)))

\* a variant of lines 11-15 without the slice of line 15
PhrasesUncapped(input) == Clauses(input)

\* lines 11-15 of parseFlowchartInput
Phrases(input) ==
  LET kept == Clauses(input)
  IN  SubSeq(kept, 1, IF Len(kept) < MaxPhrases THEN Len(kept) ELSE MaxPhrases)

SanitizeForMermaid(text) ==
  LET t == ReplaceChars(text, {"\""}, "'")
  IN  Slice(t, 1, IF Len(t) < MaxLabelLen THEN Len(t) ELSE MaxLabelLen)

\* the forEach of lines 115-118, from phrase i (0-based) on
RECURSIVE NodeLines(_, _)
NodeLines(phrases, i) ==
  IF i >= Len(phrases) THEN ""
  ELSE "    " \o NodeId(i) \o "[" \o SanitizeForMermaid(phrases[i + 1]) \o "]\n"
         \o NodeLines(phrases, i + 1)

\* the for loop of lines 121-125
RECURSIVE ConnectionLines(_, _)
ConnectionLines(phrases, i) ==
  IF i >= Len(phrases) - 1 THEN ""
  ELSE "    " \o NodeId(i) \o " --> " \o NodeId(i + 1) \o "\n"
         \o ConnectionLines(phrases, i + 1)

GenerateFallbackFlowchart(phrases) ==
  "flowchart TD\n" \o NodeLines(phrases, 0) \o ConnectionLines(phrases, 0)

(***************************************************************************)
(* MermaidRenderer.jsx: the normalisation chain of normalizedChart         *)
(***************************************************************************)
\* the length of the longest run of \s characters of s that starts at i
SpaceRun(s, i) ==
  MinOf({j \in i..Len(s) : CharAt(s, j) \notin WhiteSpace} \cup {Len(s) + 1}) - i

\* s.replace(/pat/g, by) for a literal, non-empty pat
RECURSIVE ReplaceLiteral(_, _, _)
ReplaceLiteral(s, pat, by) ==
  LET hits == {i \in 1..Len(s) : Slice(s, i, i + Len(pat) - 1) = pat}
  IN  IF hits = {} THEN s
      ELSE Slice(s, 1, MinOf(hits) - 1) \o by
             \o ReplaceLiteral(From(s, MinOf(hits) + Len(pat)), pat, by)

\* line 23: .replace(/\\n/g, '\n')
UnescapeNewlines(s) == ReplaceLiteral(s, "\\n", "\n")

\* line 24: .replace(/\\r/g, '')
DropEscapedReturns(s) == ReplaceLiteral(s, "\\r", "")

\* line 25: .replace(/\r\n?/g, '\n')
RECURSIVE NormalizeLineEndings(_)
NormalizeLineEndings(s) ==
  LET hits == {i \in 1..Len(s) : CharAt(s, i) = "\r"}
      i == MinOf(hits)
  IN  IF hits = {} THEN s
      ELSE Slice(s, 1, i - 1) \o "\n"
             \o NormalizeLineEndings(From(s, IF CharAt(s, i + 1) = "\n" THEN i + 2 ELSE i + 1))

\* the length of the match of /\s*-->\s*\n\s*/ that starts at i, 0 when none
BrokenArrowMatch(s, i) ==
  LET a == SpaceRun(s, i)
      b == SpaceRun(s, i + a + 3)
  IN  IF /\ Slice(s, i + a, i + a + 2) = "-->"
         /\ Includes(Slice(s, i + a + 3, i + a + 2 + b), "\n")
      THEN a + 3 + b ELSE 0

\* line 26: .replace(/\s*-->\s*\n\s*/g, ' --> ')
RECURSIVE RejoinArrows(_)
RejoinArrows(s) ==
  LET hits == {i \in 1..Len(s) : BrokenArrowMatch(s, i) > 0}
      i == MinOf(hits)
  IN  IF hits = {} THEN s
      ELSE Slice(s, 1, i - 1) \o " --> "
             \o RejoinArrows(From(s, i + BrokenArrowMatch(s, i)))

\* the match of /\n\s*\|([^|]+)\|\s*/ that starts at i: its length (0 when
\* none) and the text of group 1
BrokenLabelMatch(s, i) ==
  LET a == SpaceRun(s, i + 1)
      open == i + 1 + a
      bars == {j \in (open + 1)..Len(s) : CharAt(s, j) = "|"}
      close == IF bars = {} THEN 0 ELSE MinOf(bars)
      b == SpaceRun(s, close + 1)
  IN  IF CharAt(s, i) = "\n" /\ CharAt(s, open) = "|" /\ close > open + 1
      THEN [len |-> close + b - i + 1, label |-> Slice(s, open + 1, close - 1)]
      ELSE [len |-> 0, label |-> ""]

\* line 27: .replace(/\n\s*\|([^|]+)\|\s*/g, '|$1|')
RECURSIVE RejoinLabels(_)
RejoinLabels(s) ==
  LET hits == {i \in 1..Len(s) : BrokenLabelMatch(s, i).len > 0}
      i == MinOf(hits)
      m == BrokenLabelMatch(s, i)
  IN  IF hits = {} THEN s
      ELSE Slice(s, 1, i - 1) \o "|" \o m.label \o "|"
             \o RejoinLabels(From(s, i + m.len))

\* line 28: .replace(/([^\n])(graph TD)/g, '$1\n$2')
RECURSIVE BreakBeforeHeader(_)
BreakBeforeHeader(s) ==
  LET hits == {i \in 1..Len(s) :
                 CharAt(s, i) # "\n" /\ Slice(s, i + 1, i + 8) = "graph TD"}
      i == MinOf(hits)
  IN  IF hits = {} THEN s
      ELSE Slice(s, 1, i) \o "\ngraph TD" \o BreakBeforeHeader(From(s, i + 9))

\* line 29: .replace(/(\]|\})([\w])/g, '$1\n$2')
RECURSIVE BreakAfterNode(_)
BreakAfterNode(s) ==
  LET hits == {i \in 1..Len(s) :
                 CharAt(s, i) \in {"]", "}"} /\ CharAt(s, i + 1) \in WordChars}
      i == MinOf(hits)
  IN  IF hits = {} THEN s
      ELSE Slice(s, 1, i) \o "\n" \o CharAt(s, i + 1) \o BreakAfterNode(From(s, i + 2))

\* line 30: .replace(/(-->)([^\n])/g, '$1 $2')
RECURSIVE SpaceAfterArrow(_)
SpaceAfterArrow(s) ==
  LET hits == {i \in 1..Len(s) :
                 Slice(s, i, i + 2) = "-->" /\ i + 3 <= Len(s) /\ CharAt(s, i + 3) # "\n"}
      i == MinOf(hits)
  IN  IF hits = {} THEN s
      ELSE Slice(s, 1, i + 2) \o " " \o CharAt(s, i + 3) \o SpaceAfterArrow(From(s, i + 4))

\* lines 22-30: chart -> normalizedChart
NormalizeChart(chart) ==
  SpaceAfterArrow(BreakAfterNode(BreakBeforeHeader(RejoinLabels(RejoinArrows(
    NormalizeLineEndings(DropEscapedReturns(UnescapeNewlines(chart))))))))

(***************************************************************************)
(* The remote generation services, as the page and the parser see them     *)
(***************************************************************************)
\* the texts a service may put into its diagram field
ServiceTexts ==
  {"graph TD\nA[x] --> B[y]", "graph TD", "Sorry", "flowchart TD\nA --> B"}

\* a reply of a service: the fetch rejects ("unreachable"), the status is
\* not a success ("status"), the body is no JSON ("unparsable"), or a JSON
\* body arrives whose diagram field is absent (Null), empty or a text
Replies ==
  {[kind |-> k, text |-> Null] : k \in {"unreachable", "status", "unparsable"}}
    \cup {[kind |-> "body", text |-> t] : t \in {Null, ""} \cup ServiceTexts}

NoReply == [kind |-> "none", text |-> Null]

Thrown == [thrown |-> TRUE, value |-> Null]

Returned(v) == [thrown |-> FALSE, value |-> v]

\* Diagram.jsx lines 18-46: the outcome of createFlowchartFromBackend
CreateFlowchartFromBackend(reply) ==
  IF reply.kind # "body" THEN Thrown
  ELSE IF Truthy(reply.text) THEN Returned(reply.text)
  ELSE Thrown

\* flowchartParser.js lines 50-108: the outcome of generateFlowchartFromAPI
GenerateFlowchartFromAPI(reply) ==
  IF reply.kind # "body" THEN Thrown
  ELSE IF Truthy(reply.text) THEN Returned(reply.text)
  ELSE Thrown

\* the check that accepts any text the API returned
LooksLikeFlowchartAny(result) == Truthy(result)

\* flowchartParser.js line 22: the check of the text the API returned
LooksLikeFlowchart(result) ==
  /\ Truthy(result)
  /\ (StartsWith(Trim(result), "flowchart") \/ StartsWith(Trim(result), "graph"))

\* flowchartParser.js lines 17-35: what parseFlowchartInput resolves to once
\* the API has replied, phrases being the clauses it extracted before the call
ParseFlowchartInput(phrases, reply) ==
  LET result == GenerateFlowchartFromAPI(reply)
  IN  IF ~result.thrown /\ LooksLikeFlowchart(result.value) THEN result.value
      ELSE GenerateFallbackFlowchart(phrases)

(***************************************************************************)
(* Diagram.jsx: the state of DiagramPage and its handlers                  *)
(***************************************************************************)
VARIABLES
  selected,      \* useState: the diagram type chosen, Null before any choice
  input,         \* useState: the text of the description field
  mermaidCode,   \* useState: the stored document
  loading,       \* useState: the in-progress flag
  error,         \* useState: the error shown, Null when none
  inputWarning,  \* useState: the level of the input warning, Null when none
  toast,         \* the last toast shown, Null when none
  pc,            \* where the last handleSubmit stands
  awaiting,      \* how many handleSubmit calls are suspended at an await
  reqInput,      \* the input the running handleSubmit closed over
  reqSelected,   \* the diagram type the running handleSubmit closed over
  phrases,       \* parseFlowchartInput: the clauses extracted from the input
  backendReply,  \* the reply createFlowchartFromBackend received
  apiReply,      \* the reply generateFlowchartFromAPI received
  arg,           \* a function under study: its argument
  res,           \* its result
  res2,          \* the result of applying it to its own result
  ok,            \* the verdict of validateMermaidSyntax on the result
  stage,         \* how far the study has come
  storage,       \* localStorage: the value under each key, Null when absent
  location,      \* the router's location: its pathname and its state.from
  requested,     \* the path the last navigation asked for
  rendered,      \* the page the matched route renders
  loginPc,       \* where handleSubmit of the Login page stands
  loginUserPc,   \* where authApi.loginUser stands
  lastAuth       \* the most recent login or logout that succeeded

pageVars ==
  <<selected, input, mermaidCode, loading, error, inputWarning, toast, pc,
    awaiting, reqInput, reqSelected, phrases, backendReply, apiReply>>

studyVars == <<arg, res, res2, ok, stage>>

vars ==
  <<selected, input, mermaidCode, loading, error, inputWarning, toast, pc,
    awaiting, reqInput, reqSelected, phrases, backendReply, apiReply,
    arg, res, res2, ok, stage,
    storage, location, requested, rendered, loginPc, loginUserPc, lastAuth>>

authVars ==
  <<storage, location, requested, rendered, loginPc, loginUserPc, lastAuth>>

\* the keys of localStorage the application uses
StorageKeys == {"token", "access_token", "user"}

\* the application before its first navigation, on a browser whose storage
\* is empty
AuthIdle ==
  /\ storage = [key \in StorageKeys |-> Null]
  /\ location = [pathname |-> Null, from |-> Null]
  /\ requested = Null
  /\ rendered = Null
  /\ loginPc = "idle"
  /\ loginUserPc = "idle"
  /\ lastAuth = "none"

\* Diagram.jsx lines 9-15
DiagramTypes == {"Flowchart", "Sequence", "Class", "Use Case", "DFD"}

\* the descriptions a user types
PageInputs == {"", " \n ", "Log in, check password", ";.", "a \"b\""}

EmptyInputError == "Please enter a description"

FallbackToast == "Used fallback processing"

InfoLimit == 1000

WarningLimit == 2000

SevereLimit == 3000

\* a variant of lines 203-225 whose comparisons include the limit: >=
AnalyzeInputInclusive(text) ==
  IF Len(text) >= SevereLimit THEN "severe"
  ELSE IF Len(text) >= WarningLimit THEN "warning"
  ELSE IF Len(text) >= InfoLimit THEN "info"
  ELSE Null

\* lines 203-225: the level analyzeInput sets
AnalyzeInput(text) ==
  IF Len(text) > SevereLimit THEN "severe"
  ELSE IF Len(text) > WarningLimit THEN "warning"
  ELSE IF Len(text) > InfoLimit THEN "info"
  ELSE Null

\* a variant of the test of line 241 without the trim: !input
IsBlankUntrimmed(text) == text = ""

\* line 241: !input.trim()

IsBlank(text) == Trim(text) = ""

\* lines 268-269 and 275-276: the document used when nothing was generated
FallbackTemplate(type) ==
  "graph TD\n      A[\"Start\"] --> B[\""
    \o (IF Truthy(type) THEN type ELSE "Process") \o "\"] --> C[\"End\"]"

\* line 268: generatedDiagram || `...`
StoredDocument(generatedDiagram, type) ==
  IF Truthy(generatedDiagram) THEN generatedDiagram ELSE FallbackTemplate(type)

PageInit ==
  /\ selected = Null
  /\ input = ""
  /\ mermaidCode = ""
  /\ loading = FALSE
  /\ error = Null
  /\ inputWarning = Null
  /\ toast = Null
  /\ pc = "idle"
  /\ awaiting = 0
  /\ reqInput = ""
  /\ reqSelected = Null
  /\ phrases = <<>>
  /\ backendReply = NoReply
  /\ apiReply = NoReply

StudyIdle ==
  /\ arg = Null
  /\ res = Null
  /\ res2 = Null
  /\ ok = FALSE
  /\ stage = "idle"

\* line 411: onClick={() => setSelected(type.name)}
SelectType(type) ==
  /\ selected' = type
  /\ UNCHANGED <<input, mermaidCode, loading, error, inputWarning, toast, pc,
                 awaiting, reqInput, reqSelected, phrases, backendReply, apiReply>>
  /\ UNCHANGED studyVars
  /\ UNCHANGED authVars

\* lines 227-237; the field is rendered once a type is selected
HandleInputChange(newValue) ==
  /\ selected # Null
  /\ input' = newValue
  /\ inputWarning' = IF selected = "Flowchart" THEN AnalyzeInput(newValue) ELSE Null
  /\ UNCHANGED <<selected, mermaidCode, loading, error, toast, pc,
                 awaiting, reqInput, reqSelected, phrases, backendReply, apiReply>>
  /\ UNCHANGED studyVars
  /\ UNCHANGED authVars

\* a variant of the form whose submit button stays enabled while loading
CanSubmitWhileLoading == selected # Null

\* a variant of the form whose submit button is also disabled by a severe
\* input warning
CanSubmitUnlessSevere == selected # Null /\ ~loading /\ inputWarning # "severe"

\* the form is rendered once a type is selected and its submit button is
\* disabled while loading (lines 436 and 472)
CanSubmit == selected # Null /\ ~loading

\* lines 240-244: the early return of handleSubmit
RejectEmptyInput ==
  /\ CanSubmit
  /\ IsBlank(input)
  /\ error' = EmptyInputError
  /\ pc' = "rejected"
  /\ reqInput' = input
  /\ reqSelected' = selected
  /\ UNCHANGED <<selected, input, mermaidCode, loading, inputWarning, toast,
                 awaiting, phrases, backendReply, apiReply>>
  /\ UNCHANGED studyVars
  /\ UNCHANGED authVars

\* a variant of handleSubmit that calls the backend for every diagram type
StartGenerationBackendFirst ==
  /\ CanSubmit
  /\ ~IsBlank(input)
  /\ loading' = TRUE
  /\ error' = Null
  /\ mermaidCode' = ""
  /\ reqInput' = input
  /\ reqSelected' = selected
  /\ backendReply' = NoReply
  /\ apiReply' = NoReply
  /\ awaiting' = awaiting + 1
  /\ pc' = "awaitBackend"
  /\ phrases' = <<>>
  /\ UNCHANGED <<selected, input, inputWarning, toast>>
  /\ UNCHANGED studyVars
  /\ UNCHANGED authVars

\* lines 246-256 and 263-264: handleSubmit up to its first await; for a
\* type other than Flowchart parseFlowchartInput runs up to its own await
StartGeneration ==
  /\ CanSubmit
  /\ ~IsBlank(input)
  /\ loading' = TRUE
  /\ error' = Null
  /\ mermaidCode' = ""
  /\ reqInput' = input
  /\ reqSelected' = selected
  /\ backendReply' = NoReply
  /\ apiReply' = NoReply
  /\ awaiting' = awaiting + 1
  /\ IF selected = "Flowchart"
     THEN pc' = "awaitBackend" /\ phrases' = <<>>
     ELSE pc' = "awaitApi" /\ phrases' = Phrases(input)
  /\ UNCHANGED <<selected, input, inputWarning, toast>>
  /\ UNCHANGED studyVars
  /\ UNCHANGED authVars

HandleSubmit == RejectEmptyInput \/ StartGeneration

\* lines 256-257, 268 and 278: the backend answered with a diagram
BackendSucceeded(reply) ==
  /\ pc = "awaitBackend"
  /\ ~CreateFlowchartFromBackend(reply).thrown
  /\ backendReply' = reply
  /\ mermaidCode' = StoredDocument(CreateFlowchartFromBackend(reply).value, reqSelected)
  /\ loading' = FALSE
  /\ awaiting' = awaiting - 1
  /\ pc' = "done"
  /\ UNCHANGED <<selected, input, error, inputWarning, toast, reqInput,
                 reqSelected, phrases, apiReply>>
  /\ UNCHANGED studyVars
  /\ UNCHANGED authVars

\* a variant of lines 258-262 in which the backend failure is not caught by
\* the inner try and reaches the outer catch of lines 270-276
BackendFailedUncaught(reply) ==
  /\ pc = "awaitBackend"
  /\ CreateFlowchartFromBackend(reply).thrown
  /\ backendReply' = reply
  /\ error' = "Failed to generate diagram: " \o reply.kind
  /\ mermaidCode' = FallbackTemplate(reqSelected)
  /\ loading' = FALSE
  /\ awaiting' = awaiting - 1
  /\ pc' = "done"
  /\ UNCHANGED <<selected, input, inputWarning, toast, reqInput, reqSelected,
                 phrases, apiReply>>
  /\ UNCHANGED studyVars
  /\ UNCHANGED authVars

\* lines 258-260: createFlowchartFromBackend threw; the inner catch calls
\* parseFlowchartInput, which runs up to its await
BackendFailed(reply) ==
  /\ pc = "awaitBackend"
  /\ CreateFlowchartFromBackend(reply).thrown
  /\ backendReply' = reply
  /\ phrases' = Phrases(reqInput)
  /\ pc' = "awaitApi"
  /\ UNCHANGED <<selected, input, mermaidCode, loading, error, inputWarning,
                 toast, awaiting, reqInput, reqSelected, apiReply>>
  /\ UNCHANGED studyVars
  /\ UNCHANGED authVars

\* a variant of the step below without the finally block of lines 277-279
ApiRepliedNoFinally(reply) ==
  /\ pc = "awaitApi"
  /\ apiReply' = reply
  /\ mermaidCode' = StoredDocument(ParseFlowchartInput(phrases, reply), reqSelected)
  /\ toast' = IF reqSelected = "Flowchart" THEN FallbackToast ELSE toast
  /\ awaiting' = awaiting - 1
  /\ pc' = "done"
  /\ UNCHANGED <<selected, input, loading, error, inputWarning, reqInput,
                 reqSelected, phrases, backendReply>>
  /\ UNCHANGED studyVars
  /\ UNCHANGED authVars

\* flowchartParser.js lines 19-35, then Diagram.jsx lines 260-261 (or 264),
\* 268 and 278: the API replied, parseFlowchartInput resolves, the document
\* is stored
ApiReplied(reply) ==
  /\ pc = "awaitApi"
  /\ apiReply' = reply
  /\ mermaidCode' = StoredDocument(ParseFlowchartInput(phrases, reply), reqSelected)
  /\ toast' = IF reqSelected = "Flowchart" THEN FallbackToast ELSE toast
  /\ loading' = FALSE
  /\ awaiting' = awaiting - 1
  /\ pc' = "done"
  /\ UNCHANGED <<selected, input, error, inputWarning, reqInput, reqSelected,
                 phrases, backendReply>>
  /\ UNCHANGED studyVars
  /\ UNCHANGED authVars

Init == PageInit /\ StudyIdle /\ AuthIdle

Next ==
  \/ \E type \in DiagramTypes : SelectType(type)
  \/ \E newValue \in PageInputs : HandleInputChange(newValue)
  \/ HandleSubmit
  \/ \E reply \in Replies : BackendSucceeded(reply)
  \/ \E reply \in Replies : BackendFailed(reply)
  \/ \E reply \in Replies : ApiReplied(reply)

Spec == Init /\ [][Next]_vars

\* the pending fetch of createFlowchartFromBackend (line 20) settles and
\* handleSubmit resumes: the step is BackendSucceeded or BackendFailed
BackendAnswered == pc = "awaitBackend" /\ pc' \in {"done", "awaitApi"}

\* the pending fetch of generateFlowchartFromAPI (flowchartParser.js line 54)
\* settles and handleSubmit resumes: the step is ApiReplied
ApiAnswered == pc = "awaitApi" /\ pc' = "done"

\* every remote call eventually yields a response or a transport failure
RemoteCallsAnswered == WF_pc(BackendAnswered) /\ WF_pc(ApiAnswered)

SpecLive == Init /\ [][Next]_vars /\ RemoteCallsAnswered

(***************************************************************************)
(* Diagram.jsx lines 49-84: convertReactFlowToMermaid                      *)
(***************************************************************************)
\* lines 58-59: the label of a node, double quotes and line feeds blanked
CleanLabel(node) ==
  LET label == IF Truthy(node.label) THEN node.label ELSE node.id
  IN  Trim(ReplaceChars(label, {"\"", "\n"}, " "))

\* lines 61-69: the line of one node
EmitNode(node) ==
  IF node.type = "input" THEN "  " \o node.id \o "([\"" \o CleanLabel(node) \o "\"])\n"
  ELSE IF node.type = "output"
    THEN "  " \o node.id \o "([\"" \o CleanLabel(node) \o "\"])\n"
  ELSE IF Includes(CleanLabel(node), "?") \/ Includes(CleanLabel(node), "decision")
    THEN "  " \o node.id \o "{" \o CleanLabel(node) \o "}\n"
  ELSE "  " \o node.id \o "[\"" \o CleanLabel(node) \o "\"]\n"

\* lines 75-79: the line of one edge
EmitEdge(edge) ==
  IF Truthy(edge.label)
    THEN "  " \o edge.source \o " -->|" \o edge.label \o "| " \o edge.target \o "\n"
  ELSE "  " \o edge.source \o " --> " \o edge.target \o "\n"

\* the forEach of lines 57-70, from node i on
RECURSIVE EmitNodes(_, _)
EmitNodes(nodes, i) ==
  IF i > Len(nodes) THEN "" ELSE EmitNode(nodes[i]) \o EmitNodes(nodes, i + 1)

\* the forEach of lines 74-80, from edge i on
RECURSIVE EmitEdges(_, _)
EmitEdges(edges, i) ==
  IF i > Len(edges) THEN "" ELSE EmitEdge(edges[i]) \o EmitEdges(edges, i + 1)

\* lines 49-84; line 51 throws when the data or its nodes are missing, and
\* line 73 skips the edges when there are none. The data is a record that
\* tells which of the three is there: given, hasNodes, hasEdges
ConvertReactFlowToMermaid(reactflowData) ==
  IF ~reactflowData.given \/ ~reactflowData.hasNodes THEN Thrown
  ELSE Returned("graph TD\n"
         \o EmitNodes(reactflowData.nodes, 1)
         \o (IF ~reactflowData.hasEdges THEN ""
             ELSE EmitEdges(reactflowData.edges, 1)))

(***************************************************************************)
(* App.jsx, ProtectedRoute.jsx, Login.jsx, Header.jsx, authApi.js: routes, *)
(* login and logout                                                        *)
(***************************************************************************)
\* App.jsx lines 24-52: the paths that have a route
Routes == {"/login", "/signup", "/", "/diagram", "/about", "/contact"}

\* App.jsx lines 28-52: the paths whose element is wrapped in ProtectedRoute
ProtectedPaths == {"/", "/about", "/contact"}

\* App.jsx lines 24-52: the page of each route
PageOf(path) ==
  CASE path = "/login" -> "Login"
    [] path = "/signup" -> "Signup"
    [] path = "/" -> "Home"
    [] path = "/diagram" -> "Diagram"
    [] path = "/about" -> "About"
    [] path = "/contact" -> "Contact"

ProtectedPages == {PageOf(path) : path \in ProtectedPaths}

AuthWarning == "Please login to access this page"

\* ProtectedRoute.jsx line 7
IsAuthenticated(store) == Truthy(store["token"])

\* a route shown as it is
Shown(path) ==
  [location |-> [pathname |-> path, from |-> Null],
   rendered |-> PageOf(path),
   toast |-> Null]

\* a variant of ProtectedRoute that renders its children whatever is stored
ProtectedRouteOpen(path, store) == Shown(path)

\* ProtectedRoute.jsx lines 5-24: the children, or a warning and a
\* replacing navigation to /login whose state holds the path asked for
ProtectedRoute(path, store) ==
  IF ~IsAuthenticated(store)
    THEN [location |-> [pathname |-> "/login", from |-> path],
          rendered |-> PageOf("/login"),
          toast |-> AuthWarning]
  ELSE Shown(path)

\* App.jsx lines 22-53: what the router shows for a path
RouteTo(path, store) ==
  IF path \in ProtectedPaths THEN ProtectedRoute(path, store) ELSE Shown(path)

\* the page variables a navigation, a login or a logout leaves alone
quietVars ==
  <<selected, input, mermaidCode, loading, error, inputWarning, pc, awaiting,
    reqInput, reqSelected, phrases, backendReply, apiReply>>

\* a link of the Header (lines 29-42) is followed or an address is entered
Navigate(path) ==
  /\ requested' = path
  /\ location' = RouteTo(path, storage).location
  /\ rendered' = RouteTo(path, storage).rendered
  /\ toast' = IF RouteTo(path, storage).toast = Null THEN toast
              ELSE RouteTo(path, storage).toast
  /\ UNCHANGED <<storage, loginPc, loginUserPc, lastAuth>>
  /\ UNCHANGED quietVars
  /\ UNCHANGED studyVars

\* what the fields of the Login form may hold
Emails == {"", "a@b.c"}

Passwords == {"", "secret"}

\* the replies of /api/auth/login: the fetch rejects, the status is not a
\* success, the body is no JSON, or a JSON body arrives with its success
\* flag, its access_token (Null when the field is missing) and its user
LoginReplies ==
  {[kind |-> k, success |-> FALSE, access_token |-> Null, user |-> Null] :
     k \in {"unreachable", "status", "unparsable", "body"}}
    \cup {[kind |-> "body", success |-> TRUE, access_token |-> t,
            user |-> "{\"name\":\"Ann\"}"] : t \in {Null, "t1", "t2"}}

\* localStorage.setItem stores the string of its value
Stored(value) == IF value = Null THEN "undefined" ELSE value

\* Login.jsx lines 14-17: the early return of handleSubmit
LoginRejectEmpty(email, password) ==
  /\ rendered = "Login"
  /\ loginPc = "idle"
  /\ ~Truthy(email) \/ ~Truthy(password)
  /\ toast' = "Please fill in all fields"
  /\ UNCHANGED authVars
  /\ UNCHANGED quietVars
  /\ UNCHANGED studyVars

\* Login.jsx lines 19-30: handleSubmit up to its await; the button is
\* disabled while the request is pending (line 89)
LoginSubmit(email, password) ==
  /\ rendered = "Login"
  /\ loginPc = "idle"
  /\ Truthy(email) /\ Truthy(password)
  /\ loginPc' = "awaitLogin"
  /\ UNCHANGED <<storage, location, requested, rendered, loginUserPc, lastAuth>>
  /\ UNCHANGED toast
  /\ UNCHANGED quietVars
  /\ UNCHANGED studyVars

\* Login.jsx lines 34-49: the body of a reply that handleSubmit reads, Null
\* when it throws before
LoginSucceeded(reply) == reply.kind = "body" /\ reply.success

\* Login.jsx lines 32-64: the reply arrived
LoginReplied(reply) ==
  /\ loginPc = "awaitLogin"
  /\ loginPc' = "idle"
  /\ IF LoginSucceeded(reply)
     THEN LET store == [storage EXCEPT !["token"] = Stored(reply.access_token),
                                       !["user"] = Stored(reply.user)]
          IN  /\ storage' = store
              /\ requested' = "/"
              /\ location' = RouteTo("/", store).location
              /\ rendered' = RouteTo("/", store).rendered
              /\ toast' = IF RouteTo("/", store).toast = Null
                            THEN "Login successful!"
                          ELSE RouteTo("/", store).toast
              /\ lastAuth' = "login"
     ELSE /\ toast' = IF reply.kind = "body" THEN "Invalid credentials"
                      ELSE "Connection error: " \o reply.kind
          /\ UNCHANGED <<storage, location, requested, rendered, lastAuth>>
  /\ UNCHANGED loginUserPc
  /\ UNCHANGED quietVars
  /\ UNCHANGED studyVars

\* authApi.js lines 3-11: loginUser up to its await
LoginUserCalled(email, password) ==
  /\ loginUserPc = "idle"
  /\ loginUserPc' = "awaitLoginUser"
  /\ UNCHANGED <<storage, location, requested, rendered, loginPc, lastAuth>>
  /\ UNCHANGED toast
  /\ UNCHANGED quietVars
  /\ UNCHANGED studyVars

\* authApi.js lines 13-26: the reply arrived; loginUser stores and returns,
\* or throws
LoginUserReplied(reply) ==
  /\ loginUserPc = "awaitLoginUser"
  /\ loginUserPc' = "idle"
  /\ IF reply.kind \in {"body", "status"} /\ reply.success
     THEN /\ storage' = [storage EXCEPT
                           !["access_token"] = Stored(reply.access_token),
                           !["user"] = Stored(reply.user)]
          /\ lastAuth' = "login"
     ELSE UNCHANGED <<storage, lastAuth>>
  /\ UNCHANGED <<location, requested, rendered, loginPc>>
  /\ UNCHANGED toast
  /\ UNCHANGED quietVars
  /\ UNCHANGED studyVars

\* Header.jsx lines 13-18, behind the button of line 37, which is rendered
\* when a token is stored
HandleLogout ==
  /\ rendered # Null
  /\ Truthy(storage["token"])
  /\ storage' = [storage EXCEPT !["token"] = Null, !["user"] = Null]
  /\ toast' = "Logged out successfully"
  /\ requested' = "/login"
  /\ location' = RouteTo("/login", storage').location
  /\ rendered' = RouteTo("/login", storage').rendered
  /\ lastAuth' = "logout"
  /\ UNCHANGED <<loginPc, loginUserPc>>
  /\ UNCHANGED quietVars
  /\ UNCHANGED studyVars

\* authApi.js lines 52-55
LogoutUser ==
  /\ storage' = [storage EXCEPT !["access_token"] = Null, !["user"] = Null]
  /\ lastAuth' = "logout"
  /\ UNCHANGED <<location, requested, rendered, loginPc, loginUserPc>>
  /\ UNCHANGED toast
  /\ UNCHANGED quietVars
  /\ UNCHANGED studyVars

AuthNext ==
  \/ \E path \in Routes : Navigate(path)
  \/ \E email \in Emails, password \in Passwords : LoginRejectEmpty(email, password)
  \/ \E email \in Emails, password \in Passwords : LoginSubmit(email, password)
  \/ \E reply \in LoginReplies : LoginReplied(reply)
  \/ \E email \in Emails, password \in Passwords : LoginUserCalled(email, password)
  \/ \E reply \in LoginReplies : LoginUserReplied(reply)
  \/ HandleLogout
  \/ LogoutUser

SpecAuth == Init /\ [][AuthNext]_vars

(***************************************************************************)
(* The converter behind the backend service (converter.convert and         *)
(* converter.extract_main_action of the tests): Action Normalizer,         *)
(* Conditional Detector, Graph Builder and Diagram Emitter as the          *)
(* specification describes them                                            *)
(***************************************************************************)
LowerLetters == "abcdefghijklmnopqrstuvwxyz"

UpperLetters == "ABCDEFGHIJKLMNOPQRSTUVWXYZ"

\* the letter of the alphabet to that stands where c stands in from; c itself
\* when it is not in from
Translate(c, from, to) ==
  IF \E k \in 1..Len(from) : CharAt(from, k) = c
    THEN CharAt(to, CHOOSE k \in 1..Len(from) : CharAt(from, k) = c)
  ELSE c

\* s in lower case
RECURSIVE ToLower(_)
ToLower(s) ==
  IF Len(s) = 0 THEN ""
  ELSE IF Len(s) = 1 THEN Translate(s, UpperLetters, LowerLetters)
  ELSE ToLower(Slice(s, 1, Len(s) \div 2)) \o ToLower(From(s, Len(s) \div 2 + 1))

\* a word with its first letter in upper case and the others in lower case
Capitalize(word) ==
  Translate(CharAt(word, 1), LowerLetters, UpperLetters) \o ToLower(From(word, 2))

\* the words of a text
WordsOf(text) == FilterNonEmpty(Split(text, WhiteSpace))

\* the words from the i-th to the j-th, each capitalized, joined by spaces
RECURSIVE TitleCase(_, _, _)
TitleCase(words, i, j) ==
  IF i > j \/ i > Len(words) THEN ""
  ELSE Capitalize(words[i])
         \o (IF i < j /\ i < Len(words) THEN " " ELSE "")
         \o TitleCase(words, i + 1, j)

\* the words from the i-th to the j-th as they are, joined by spaces
RECURSIVE Phrase(_, _, _)
Phrase(words, i, j) ==
  IF i > j \/ i > Len(words) THEN ""
  ELSE words[i] \o (IF i < j /\ i < Len(words) THEN " " ELSE "")
         \o Phrase(words, i + 1, j)

\* 4.3: the leading filler patterns, as sequences of lower-case words
FillerPrefixes ==
  {<<"system", "will">>, <<"user", "must">>, <<"to">>,
   <<"first">>, <<"then">>, <<"finally">>}

\* the filler prefix the words begin with from position i on, if any
FillerAt(words, i) ==
  {f \in FillerPrefixes :
     /\ i + Len(f) - 1 <= Len(words)
     /\ \A k \in 1..Len(f) : ToLower(words[i + k - 1]) = f[k]}

\* the position of the first word left when the leading fillers are removed
RECURSIVE AfterFillers(_, _)
AfterFillers(words, i) ==
  IF FillerAt(words, i) = {} THEN i
  ELSE AfterFillers(words, i + Len(CHOOSE f \in FillerAt(words, i) : TRUE))

\* the normalizer without its fallback to the first word
ExtractMainActionNoFallback(clause) ==
  LET words == WordsOf(clause)
  IN  TitleCase(words, AfterFillers(words, 1), Len(words))

\* 4.3 Action Normalizer: fillers removed, the rest title-cased; when nothing
\* is left, the first word of the clause capitalized
ExtractMainAction(clause) ==
  LET words == WordsOf(clause)
      at == AfterFillers(words, 1)
  IN  IF at <= Len(words) THEN TitleCase(words, at, Len(words))
      ELSE TitleCase(words, 1, 1)

\* 4.4 Conditional Detector: the first if ... then ... [else ...] of the
\* clause, as the positions of its key words; 0 for a key word that is absent
DetectConditional(clause) ==
  LET words == WordsOf(clause)
      at(word, after) ==
        LET found == {i \in (after + 1)..Len(words) : ToLower(words[i]) = word}
        IN  IF after = 0 /\ word # "if" THEN 0
            ELSE IF found = {} THEN 0 ELSE MinOf(found)
      ifAt == at("if", 0)
      thenAt == at("then", ifAt)
      elseAt == at("else", thenAt)
      last == IF elseAt = 0 THEN Len(words) ELSE elseAt - 1
  IN  [matches |-> ifAt > 0 /\ thenAt > ifAt + 1 /\ last > thenAt
                     /\ (elseAt = 0 \/ elseAt < Len(words)),
       before |-> Phrase(words, 1, ifAt - 1),
       condition |-> Phrase(words, ifAt + 1, thenAt - 1),
       consequence |-> Phrase(words, thenAt + 1, last),
       hasElse |-> elseAt > 0,
       alternative |-> Phrase(words, elseAt + 1, Len(words))]

\* 4.5: the graph with one more node of the given kind and label, named by the
\* next letter, reached from the tail by an edge with the given label when
\* there is a tail; the new node becomes the tail
AddNode(graph, kind, label, edgeLabel) ==
  LET id == NodeId(Len(graph.nodes))
  IN  [nodes |-> Append(graph.nodes, [id |-> id, kind |-> kind, label |-> label]),
       edges |-> IF graph.tail = "" THEN graph.edges
                 ELSE Append(graph.edges,
                        [from |-> graph.tail, to |-> id, label |-> edgeLabel]),
       tail |-> id]

\* the graph with its tail moved to the node named id
TailAt(graph, id) == [graph EXCEPT !.tail = id]

\* the graph with one more unlabelled edge
AddEdge(graph, from, to) ==
  [graph EXCEPT !.edges = Append(@, [from |-> from, to |-> to, label |-> ""])]

\* 4.5 (a): a clause without a conditional gives one Process node
AddAction(graph, clause) ==
  AddNode(graph, "process", ExtractMainAction(clause), "")

\* the label of the branch taken when the condition fails
DefaultAlternative == "Handle Failure"

\* the conditional with both branches hung on the last branch node
AddConditionalChained(graph, branch) ==
  LET decided == AddNode(graph, "decision", branch.condition, "")
      yes == AddNode(decided, "process", ExtractMainAction(branch.consequence), "Yes")
      no == AddNode(yes, "process",
                    IF branch.hasElse THEN ExtractMainAction(branch.alternative)
                    ELSE DefaultAlternative, "No")
  IN  AddNode(no, "process", "Continue", "")

\* 4.5 (b): a conditional gives one Decision node, a Yes branch, a No branch
\* and a new common tail both branches lead to
AddConditional(graph, branch) ==
  LET led == IF branch.before = "" THEN graph ELSE AddAction(graph, branch.before)
      decided == AddNode(led, "decision", branch.condition, "")
      decision == decided.tail
      yes == AddNode(decided, "process", ExtractMainAction(branch.consequence), "Yes")
      no == AddNode(TailAt(yes, decision), "process",
                    IF branch.hasElse THEN ExtractMainAction(branch.alternative)
                    ELSE DefaultAlternative, "No")
      joined == AddNode(no, "process", "Continue", "")
  IN  AddEdge(joined, yes.tail, joined.tail)

\* the graph after the clauses from the i-th on
RECURSIVE AddClauses(_, _, _)
AddClauses(graph, clauses, i) ==
  IF i > Len(clauses) THEN graph
  ELSE LET branch == DetectConditional(clauses[i])
       IN  AddClauses(IF branch.matches THEN AddConditional(graph, branch)
                      ELSE AddAction(graph, clauses[i]),
                      clauses, i + 1)

\* the builder that leaves the graph without its End node
BuildGraphWithoutEnd(clauses) ==
  AddClauses(AddNode([nodes |-> <<>>, edges |-> <<>>, tail |-> ""],
                     "start", "Start", ""),
             clauses, 1)

\* 4.5 Graph Builder: Start, the clauses in order, End
BuildGraph(clauses) ==
  LET started == AddNode([nodes |-> <<>>, edges |-> <<>>, tail |-> ""],
                         "start", "Start", "")
  IN  AddNode(AddClauses(started, clauses, 1), "end", "End", "")

\* 4.6: the line of a node, its shape chosen by its kind
NodeLine(node) ==
  "    " \o node.id
    \o (IF node.kind \in {"start", "end"} THEN "([\"" \o node.label \o "\"])"
        ELSE IF node.kind = "decision" THEN "{" \o node.label \o "}"
        ELSE "[\"" \o node.label \o "\"]")
    \o "\n"

\* 4.6: the line of an edge
EdgeLine(edge) ==
  "    " \o edge.from
    \o (IF edge.label = "" THEN " --> " ELSE " -->|" \o edge.label \o "| ")
    \o edge.to \o "\n"

RECURSIVE GraphNodeLines(_, _)
GraphNodeLines(nodes, i) ==
  IF i > Len(nodes) THEN "" ELSE NodeLine(nodes[i]) \o GraphNodeLines(nodes, i + 1)

RECURSIVE GraphEdgeLines(_, _)
GraphEdgeLines(edges, i) ==
  IF i > Len(edges) THEN "" ELSE EdgeLine(edges[i]) \o GraphEdgeLines(edges, i + 1)

\* 4.6 Diagram Emitter: the header, the nodes in order, the edges in order
EmitGraph(graph) ==
  "graph TD\n" \o GraphNodeLines(graph.nodes, 1) \o GraphEdgeLines(graph.edges, 1)

\* converter.convert: the diagram document of a description
Convert(text) == EmitGraph(BuildGraph(Clauses(text)))

(***************************************************************************)
(* The input classifier on descriptions of many lengths                    *)
(***************************************************************************)
LengthStep == 250

MaxSteps == 14

\* the lengths tried: the multiples of the step, and each limit of
\* analyzeInput with its two neighbours
ClassifierLengths ==
  {k * LengthStep : k \in 0..MaxSteps}
    \cup {limit + d : limit \in {InfoLimit, WarningLimit, SevereLimit}, d \in {-1, 0, 1}}

ClassifierTexts == {Repeat("a", n) : n \in ClassifierLengths}

\* the user picks types and edits the description
ClassifierNext ==
  \/ \E type \in DiagramTypes : SelectType(type)
  \/ \E newValue \in ClassifierTexts : HandleInputChange(newValue)

SpecClassifier == Init /\ [][ClassifierNext]_vars

(***************************************************************************)
(* The page with a description long enough for the severe warning          *)
(***************************************************************************)
SevereLength == 3500

AdvisoryInputs == {"", "Log in, check password", Repeat("a", SevereLength)}

AdvisoryNext ==
  \/ \E type \in DiagramTypes : SelectType(type)
  \/ \E newValue \in AdvisoryInputs : HandleInputChange(newValue)
  \/ HandleSubmit
  \/ \E reply \in Replies : BackendSucceeded(reply)
  \/ \E reply \in Replies : BackendFailed(reply)
  \/ \E reply \in Replies : ApiReplied(reply)

SpecAdvisory == Init /\ [][AdvisoryNext]_vars

(***************************************************************************)
(* The catch branches: an exception other than a failed remote call        *)
(***************************************************************************)
\* the messages of the exceptions that reach a catch branch
FailureMessages == {"boom", "no \"x\""}

\* flowchartParser.js lines 40-45: the document its outer catch returns
ParserErrorDocument(message) ==
  "flowchart TD\n    A[Start] \n    B[\"Error: "
    \o ReplaceChars(message, {"\""}, "'")
    \o "\"]\n    C[End]\n    A --> B\n    B --> C"

\* flowchartParser.js lines 36-46, then Diagram.jsx lines 260-261 (or 264),
\* 268 and 278: an exception inside the try of parseFlowchartInput reaches
\* its outer catch, whose document handleSubmit stores
ParserThrew(message) ==
  /\ pc = "awaitApi"
  /\ mermaidCode' = StoredDocument(ParserErrorDocument(message), reqSelected)
  /\ toast' = IF reqSelected = "Flowchart" THEN FallbackToast ELSE toast
  /\ loading' = FALSE
  /\ awaiting' = awaiting - 1
  /\ pc' = "recovered"
  /\ UNCHANGED <<selected, input, error, inputWarning, reqInput, reqSelected,
                 phrases, backendReply, apiReply>>
  /\ UNCHANGED studyVars
  /\ UNCHANGED authVars

\* Diagram.jsx lines 270-279: an exception inside the try of handleSubmit,
\* after its inner catch has taken over, reaches the outer catch
SubmitThrew(message) ==
  /\ pc = "awaitApi"
  /\ error' = "Failed to generate diagram: " \o message
  /\ mermaidCode' = FallbackTemplate(reqSelected)
  /\ loading' = FALSE
  /\ awaiting' = awaiting - 1
  /\ pc' = "recovered"
  /\ UNCHANGED <<selected, input, inputWarning, toast, reqInput, reqSelected,
                 phrases, backendReply, apiReply>>
  /\ UNCHANGED studyVars
  /\ UNCHANGED authVars

NextFaulty ==
  \/ Next
  \/ \E message \in FailureMessages : ParserThrew(message)
  \/ \E message \in FailureMessages : SubmitThrew(message)

SpecFaulty == Init /\ [][NextFaulty]_vars

(***************************************************************************)
(* The pure functions studied on their own: the argument is drawn from a   *)
(* bounded set of documents and the function is applied to it              *)
(***************************************************************************)
MaxPieces == 3

\* the texts made of at most n pieces
RECURSIVE TextsOf(_, _)
TextsOf(pieces, n) ==
  IF n = 0 THEN {""}
  ELSE LET shorter == TextsOf(pieces, n - 1)
       IN  shorter \cup {t \o piece : t \in shorter, piece \in pieces}

ValidatorPieces ==
  {"graph TD", "graph LR", "graph", "classDef", "\n", " ", "x", "[", "(", "{", "-->", "--"}

CleanerPieces ==
  {"graph TD", "graph", "flowchart TD", "\n", " ", "@", "A[x]", "x"}

NormalizerPieces ==
  {"graph TD", "A", "]", "|", "-->", "-->\n", "\n", " ", "\\n", "\\r", "\r"}

SegmenterPieces ==
  {"a", "b c", ",", ".", ";", ":", " ", "\n", "a,b;", "c:d.e,f,"}

FallbackPieces ==
  {"a", "\"", ",", ";", " ", "a,b;", "c:d.e,f,", "graph TD",
   "0123456789abcdefghijklmnopqrstuvwxyz"}

StudyOf(documents) ==
  /\ PageInit
  /\ AuthIdle
  /\ arg \in documents
  /\ res = Null
  /\ res2 = Null
  /\ ok = FALSE
  /\ stage = "input"

MaxNodes == 2

\* the nodes a caller passes: ReactFlow's node types, a label or none
EmitterNodeIds == <<"n1", "n2", "n3", "n4">>

EmitterNodes(i) ==
  {[id |-> EmitterNodeIds[i], type |-> t, label |-> l] :
     t \in {"input", "output", "default"},
     l \in {Null, "Check", "Ok?", "a \"b\"\n"}}

\* the lists of at most n such nodes, the i-th with the i-th identifier
RECURSIVE NodeLists(_)
NodeLists(n) ==
  IF n = 0 THEN {<<>>}
  ELSE NodeLists(n - 1)
         \cup {Append(nodes, node) :
                 nodes \in {l \in NodeLists(n - 1) : Len(l) = n - 1},
                 node \in EmitterNodes(n)}

\* no edge, or edges from the first to the second node
EdgeLists ==
  {<<>>}
    \cup {<<[source |-> "n1", target |-> "n2", label |-> l]>> : l \in {Null, "", "Yes"}}
    \cup {<<[source |-> "n1", target |-> "n2", label |-> "Yes"],
            [source |-> "n1", target |-> "n2", label |-> Null]>>}

\* undefined, an object without nodes, and graphs with or without edges
EmitterData ==
  {[given |-> g, hasNodes |-> FALSE, nodes |-> <<>>, hasEdges |-> FALSE, edges |-> <<>>] :
     g \in BOOLEAN}
    \cup {[given |-> TRUE, hasNodes |-> TRUE, nodes |-> nodes,
            hasEdges |-> FALSE, edges |-> <<>>] : nodes \in NodeLists(MaxNodes)}
    \cup {[given |-> TRUE, hasNodes |-> TRUE, nodes |-> nodes,
            hasEdges |-> TRUE, edges |-> edges] :
            nodes \in NodeLists(MaxNodes), edges \in EdgeLists}

\* convertReactFlowToMermaid(arg)
RunEmitter ==
  /\ stage = "input"
  /\ ok' = ~ConvertReactFlowToMermaid(arg).thrown
  /\ res' = ConvertReactFlowToMermaid(arg).value
  /\ stage' = "emitted"
  /\ UNCHANGED authVars
  /\ UNCHANGED <<arg, res2>>
  /\ UNCHANGED pageVars

SpecEmitter == StudyOf(EmitterData) /\ [][RunEmitter]_vars

\* validateMermaidSyntax(arg)
RunValidator ==
  /\ stage = "input"
  /\ ok' = ValidateMermaidSyntax(arg)
  /\ stage' = "validated"
  /\ UNCHANGED authVars
  /\ UNCHANGED <<arg, res, res2>>
  /\ UNCHANGED pageVars

SpecValidator ==
  StudyOf(TextsOf(ValidatorPieces, MaxPieces)) /\ [][RunValidator]_vars

\* cleanMermaidCode(arg)
RunCleaner ==
  /\ stage = "input"
  /\ res' = CleanMermaidCode(arg)
  /\ stage' = "cleaned"
  /\ UNCHANGED authVars
  /\ UNCHANGED <<arg, res2, ok>>
  /\ UNCHANGED pageVars

\* cleanMermaidCode(cleanMermaidCode(arg))
RerunCleaner ==
  /\ stage = "cleaned"
  /\ res2' = CleanMermaidCode(res)
  /\ stage' = "recleaned"
  /\ UNCHANGED authVars
  /\ UNCHANGED <<arg, res, ok>>
  /\ UNCHANGED pageVars

\* validateMermaidSyntax(cleanMermaidCode(arg))
ValidateCleaned ==
  /\ stage = "cleaned"
  /\ ok' = ValidateMermaidSyntax(res)
  /\ stage' = "cleanedValidated"
  /\ UNCHANGED authVars
  /\ UNCHANGED <<arg, res, res2>>
  /\ UNCHANGED pageVars

CleanerNext == RunCleaner \/ RerunCleaner \/ ValidateCleaned

SpecCleaner ==
  StudyOf(TextsOf(CleanerPieces, MaxPieces)) /\ [][CleanerNext]_vars

\* normalizedChart for chart = arg
RunNormalizer ==
  /\ stage = "input"
  /\ res' = NormalizeChart(arg)
  /\ stage' = "normalized"
  /\ UNCHANGED authVars
  /\ UNCHANGED <<arg, res2, ok>>
  /\ UNCHANGED pageVars

\* the chain applied to its own output
RerunNormalizer ==
  /\ stage = "normalized"
  /\ res2' = NormalizeChart(res)
  /\ stage' = "renormalized"
  /\ UNCHANGED authVars
  /\ UNCHANGED <<arg, res, ok>>
  /\ UNCHANGED pageVars

\* validateMermaidSyntax of the text handed to mermaid.render
ValidateNormalized ==
  /\ stage = "normalized"
  /\ ok' = ValidateMermaidSyntax(res)
  /\ stage' = "normalizedValidated"
  /\ UNCHANGED authVars
  /\ UNCHANGED <<arg, res, res2>>
  /\ UNCHANGED pageVars

NormalizerNext == RunNormalizer \/ RerunNormalizer \/ ValidateNormalized

SpecNormalizer ==
  StudyOf(TextsOf(NormalizerPieces, MaxPieces)) /\ [][NormalizerNext]_vars

\* generateFallbackFlowchart(phrases) for the phrases of the input arg
RunFallback ==
  /\ stage = "input"
  /\ phrases' = Phrases(arg)
  /\ res' = GenerateFallbackFlowchart(Phrases(arg))
  /\ stage' = "generated"
  /\ UNCHANGED authVars
  /\ UNCHANGED <<arg, res2, ok>>
  /\ UNCHANGED <<selected, input, mermaidCode, loading, error, inputWarning,
                 toast, pc, awaiting, reqInput, reqSelected, backendReply,
                 apiReply>>

\* validateMermaidSyntax of the fallback document
ValidateFallback ==
  /\ stage = "generated"
  /\ ok' = ValidateMermaidSyntax(res)
  /\ stage' = "generatedValidated"
  /\ UNCHANGED authVars
  /\ UNCHANGED <<arg, res, res2>>
  /\ UNCHANGED pageVars

\* lines 12-14 applied to arg: the clauses of the text
RunSegmenter ==
  /\ stage = "input"
  /\ phrases' = Clauses(arg)
  /\ stage' = "segmented"
  /\ UNCHANGED authVars
  /\ UNCHANGED <<arg, res, res2, ok>>
  /\ UNCHANGED <<selected, input, mermaidCode, loading, error, inputWarning,
                 toast, pc, awaiting, reqInput, reqSelected, backendReply,
                 apiReply>>

\* lines 12-14 applied to the same text once more
RerunSegmenter ==
  /\ stage = "segmented"
  /\ res2' = Clauses(arg)
  /\ stage' = "resegmented"
  /\ UNCHANGED authVars
  /\ UNCHANGED <<arg, res, ok>>
  /\ UNCHANGED pageVars

SegmenterNext == RunSegmenter \/ RerunSegmenter

SpecSegmenter ==
  StudyOf(TextsOf(SegmenterPieces, MaxPieces)) /\ [][SegmenterNext]_vars

\* the descriptions of the converter's tests and of the two scenarios
SequenceText == "First collect user data, then validate input, finally save to database"

BranchText == "User login if credentials valid then grant access else show error"

ActionTexts ==
  {"system will process payment", "user must enter credentials",
   "to validate user input"}

ConverterPieces ==
  {"system will ", "to ", "Then ", "process payment", "if ok then go",
   " else stop", ", "}

ConverterTexts ==
  {SequenceText, BranchText} \cup ActionTexts
    \cup TextsOf(ConverterPieces, MaxPieces)

\* converter.convert(arg): the graph that is built and the document emitted
RunConverter ==
  /\ stage = "input"
  /\ res2' = BuildGraph(Clauses(arg))
  /\ res' = Convert(arg)
  /\ stage' = "converted"
  /\ UNCHANGED authVars
  /\ UNCHANGED <<arg, ok>>
  /\ UNCHANGED pageVars

\* converter.extract_main_action of every clause of arg
RunExtractMainAction ==
  /\ stage = "input"
  /\ phrases' = Clauses(arg)
  /\ res2' = [i \in 1..Len(Clauses(arg)) |-> ExtractMainAction(Clauses(arg)[i])]
  /\ stage' = "extracted"
  /\ UNCHANGED authVars
  /\ UNCHANGED <<arg, res, ok>>
  /\ UNCHANGED <<selected, input, mermaidCode, loading, error, inputWarning,
                 toast, pc, awaiting, reqInput, reqSelected, backendReply,
                 apiReply>>

ConverterNext == RunConverter \/ RunExtractMainAction

SpecConverter == StudyOf(ConverterTexts) /\ [][ConverterNext]_vars

\* the replies of the API the parser is studied under: those of Replies and
\* bodies whose flowchart field is blank or has white space before its header
ParserReplies ==
  Replies \cup {[kind |-> "body", text |-> t] : t \in {" \n", "\n  graph LR\nA --> B"}}

\* parseFlowchartInput(arg) with the API replying reply
RunParser(reply) ==
  /\ stage = "input"
  /\ phrases' = Phrases(arg)
  /\ apiReply' = reply
  /\ res' = ParseFlowchartInput(Phrases(arg), reply)
  /\ stage' = "parsed"
  /\ UNCHANGED authVars
  /\ UNCHANGED <<arg, res2, ok>>
  /\ UNCHANGED <<selected, input, mermaidCode, loading, error, inputWarning,
                 toast, pc, awaiting, reqInput, reqSelected, backendReply>>

ParserNext == \E reply \in ParserReplies : RunParser(reply)

SpecParser ==
  StudyOf(TextsOf(FallbackPieces, MaxPieces)) /\ [][ParserNext]_vars

FallbackNext == RunFallback \/ ValidateFallback

SpecFallback ==
  StudyOf(TextsOf(FallbackPieces, MaxPieces)) /\ [][FallbackNext]_vars

(***************************************************************************)
(* Properties                                                              *)
(***************************************************************************)
AwaitingOrDone == {"awaitBackend", "awaitApi", "done"}

\* a text without any character other than white space
OnlyWhiteSpace(text) == \A i \in 1..Len(text) : CharAt(text, i) \in WhiteSpace

LinesOf(document) == Split(document, {"\n"})

SyntaxTokens == {"[", "{", "(", "-->"}

\* the graph-orientation header is present
HasHeader(document) ==
  Truthy(document) /\ (Includes(document, "graph TD") \/ Includes(document, "graph LR"))

\* some line of the document contains a node/edge syntax token
SomeLineHasToken(document) ==
  \E i \in 1..Len(LinesOf(document)) :
    \E token \in SyntaxTokens : Includes(LinesOf(document)[i], token)

\* some line that is neither a graph line nor a classDef line contains one
SomeBodyLineHasToken(document) ==
  \E i \in 1..Len(LinesOf(document)) :
    LET line == Trim(LinesOf(document)[i])
    IN  /\ ~StartsWith(line, "graph")
        /\ ~StartsWith(line, "classDef")
        /\ \E token \in SyntaxTokens : Includes(line, token)

\* the first line of the document that is not blank once its glyphs are
\* stripped and it is trimmed, "" when there is none
FirstContentLine(document) ==
  LET content == {i \in 1..Len(LinesOf(document)) : CleanLine(LinesOf(document)[i]) # ""}
  IN  IF content = {} THEN "" ELSE CleanLine(LinesOf(document)[MinOf(content)])

IsOrientationHeader(line) == StartsWith(line, "graph TD") \/ StartsWith(line, "graph LR")

\* the backend gave nothing usable: unreachable, a non-success status, no
\* diagram field, or a diagram the Validator rejects
BackendUnusable(reply) ==
  \/ reply.kind \in {"unreachable", "status", "unparsable"}
  \/ reply.kind = "body" /\ ~ValidateMermaidSyntax(reply.text)

\* C1: for every non-blank input and every outcome of the remote services,
\* the document a completed submission has stored is accepted by
\* validateMermaidSyntax.
C1_StoredDocumentIsValid == pc = "done" => ValidateMermaidSyntax(mermaidCode)

\* C2: for every list of clauses the Fallback Generator receives, the
\* document generateFallbackFlowchart emits is accepted by
\* validateMermaidSyntax.
C2_FallbackDocumentIsValid == stage = "generatedValidated" => ok

\* C3: cleanMermaidCode is idempotent: cleaning the cleaned document gives
\* the cleaned document again.
C3_CleanerIdempotent == stage = "recleaned" => res2 = res

\* C4: the normalisation chain of MermaidRenderer is idempotent: applied to
\* its own output it gives that output again.
C4_NormalizerIdempotent == stage = "renormalized" => res2 = res

\* C5: whenever cleanMermaidCode receives a non-empty document whose first
\* non-blank line is not an orientation header, it returns the fixed minimal
\* diagram, and that diagram is accepted by validateMermaidSyntax.
C5_NoHeaderGivesFixedDiagram ==
  (stage = "cleaned" /\ arg # "" /\ ~IsOrientationHeader(FirstContentLine(arg)))
    => (res = FixedMinimalDiagram /\ ValidateMermaidSyntax(res))

\* C6: a submission whose input is empty or only white space is rejected
\* before the pipeline runs: no request is started for such an input, and the
\* rejection sets the error 'Please enter a description', leaves loading
\* false, issues no remote call and leaves the stored document unchanged.
C6_EmptyInputRejected ==
  /\ [](pc \in AwaitingOrDone => ~OnlyWhiteSpace(reqInput))
  /\ [][pc' = "rejected" =>
          /\ OnlyWhiteSpace(reqInput')
          /\ error' = EmptyInputError
          /\ ~loading'
          /\ mermaidCode' = mermaidCode
          /\ backendReply' = backendReply
          /\ apiReply' = apiReply]_vars

\* a blank submission was rejected while a document of an earlier submission
\* was stored
C6_Witness ==
  /\ pc = "rejected"
  /\ reqInput = " \n "
  /\ error = EmptyInputError
  /\ mermaidCode # ""

\* C7: for every submission with non-blank input, whatever the remote
\* services return or however they fail, the error state is null when the
\* submission completes.
C7_NoErrorAfterCompletion == pc = "done" => error = Null

\* a submission completed after both services were unreachable
C7_Witness ==
  /\ pc = "done"
  /\ backendReply.kind = "unreachable"
  /\ apiReply.kind = "unreachable"
  /\ error = Null

\* C8: whenever the backend is unreachable, answers with a non-success
\* status, omits the diagram field or returns a diagram the Validator
\* rejects, the stored document is the one generateFallbackFlowchart makes
\* of the input's clauses and is not the service's text.
C8_UnusableReplyGivesFallback ==
  (pc = "done" /\ BackendUnusable(backendReply))
    => /\ mermaidCode = GenerateFallbackFlowchart(Phrases(reqInput))
       /\ mermaidCode # backendReply.text

\* C9 as stated: validateMermaidSyntax accepts a document exactly when the
\* header is present and some line contains a node/edge syntax token.
C9_AcceptsIffHeaderAndToken ==
  stage = "validated" => (ok <=> (HasHeader(arg) /\ SomeLineHasToken(arg)))

\* C9 as amended: validateMermaidSyntax accepts a document exactly when the
\* header ('graph TD' or 'graph LR') is present and some line that, trimmed,
\* starts neither with 'graph' nor with 'classDef' contains a node/edge
\* syntax token.
C9_AcceptsIffHeaderAndBodyToken ==
  stage = "validated" => (ok <=> (HasHeader(arg) /\ SomeBodyLineHasToken(arg)))

\* a document with the header and a token on the header line only is rejected
C9_Witness ==
  /\ stage = "validated"
  /\ HasHeader(arg)
  /\ SomeLineHasToken(arg)
  /\ ~SomeBodyLineHasToken(arg)
  /\ ~ok

\* C10: validateMermaidSyntax(cleanMermaidCode(x)) is true for every string
\* x, the empty string and a header-only document included.
C10_CleanedDocumentIsValid == stage = "cleanedValidated" => ok


\* C11: every document that validateMermaidSyntax accepts is still accepted
\* after the Rendering Normalizer has rewritten it
C11_NormalizerPreservesValidity ==
  (stage = "normalizedValidated" /\ ValidateMermaidSyntax(arg)) => ok


\* C12: when every remote call is eventually answered, every submission of a
\* non-blank input eventually ends with loading false and a non-empty stored
\* document; a submission is refused without a document only for blank input
C12_SubmissionEventuallyAccepted ==
  /\ [](pc = "rejected" => OnlyWhiteSpace(reqInput))
  /\ [](pc \in AwaitingOrDone => ~OnlyWhiteSpace(reqInput))
  /\ (pc \in {"awaitBackend", "awaitApi"})
        ~> (pc = "done" /\ ~loading /\ Truthy(mermaidCode))

\* a submission went through the failing backend and the failing API and
\* ended with the locally produced document
C12_Witness ==
  /\ pc = "done"
  /\ ~loading
  /\ backendReply.kind = "unreachable"
  /\ apiReply.kind = "unreachable"
  /\ Truthy(mermaidCode)

\* C13: at most one handleSubmit call is awaiting a remote response, and the
\* loading flag is set for as long as one is
C13_AtMostOneRequestAwaiting ==
  /\ awaiting <= 1
  /\ (awaiting = 1) <=> loading
  /\ (awaiting = 1) <=> (pc \in {"awaitBackend", "awaitApi"})

\* a request is outstanding while the form holds another submittable input
C13_Witness ==
  /\ awaiting = 1
  /\ selected # Null
  /\ ~OnlyWhiteSpace(input)
  /\ input # reqInput


\* C14: a failure caught by the catch branch of parseFlowchartInput or of
\* handleSubmit ends the submission with loading cleared and with the fixed
\* minimal diagram of cleanMermaidCode as the stored document
C14_FailureGivesFixedDiagram ==
  pc = "recovered" => (~loading /\ mermaidCode = FixedMinimalDiagram)


\* the smaller of two numbers
Smaller(a, b) == IF a < b THEN a ELSE b

\* the clauses of arg the Fallback Generator is to use
UsedClauses ==
  LET all == Clauses(arg) IN SubSeq(all, 1, Smaller(Len(all), MaxPhrases))

\* the length the label of a clause is to have
LabelLen(clause) == Smaller(Len(clause), MaxLabelLen)

\* label is the clause cut to the label length, each double quote replaced
IsLabelOf(label, clause) ==
  /\ Len(label) = LabelLen(clause)
  /\ \A k \in 1..Len(label) :
       CharAt(label, k) = IF CharAt(clause, k) = "\"" THEN "'" ELSE CharAt(clause, k)

FallbackHeader == "flowchart TD\n"

\* where the i-th node line of the fallback document for clauses begins: a
\* node line is four spaces, the identifier, "[", the label, "]" and a line feed
RECURSIVE NodeLineStart(_, _)
NodeLineStart(clauses, i) ==
  IF i = 1 THEN Len(FallbackHeader) + 1
  ELSE NodeLineStart(clauses, i - 1) + 8 + LabelLen(clauses[i - 1])

\* the identifier on the i-th node line of document
NodeIdAt(document, clauses, i) == CharAt(document, NodeLineStart(clauses, i) + 4)

\* the i-th node line of document is a rectangle node labelled with clause i
IsNodeLine(document, clauses, i) ==
  LET at == NodeLineStart(clauses, i)
      len == LabelLen(clauses[i])
  IN  /\ Slice(document, at, at + 3) = "    "
      /\ CharAt(document, at + 5) = "["
      /\ IsLabelOf(Slice(document, at + 6, at + 5 + len), clauses[i])
      /\ Slice(document, at + 6 + len, at + 7 + len) = "]\n"

\* where the k-th edge line begins; an edge line has 12 characters
EdgeLineStart(clauses, k) ==
  NodeLineStart(clauses, Len(clauses) + 1) + 12 * (k - 1)

\* the k-th edge line of document leads from node k to node k + 1
IsEdgeLine(document, clauses, k) ==
  LET at == EdgeLineStart(clauses, k)
  IN  Slice(document, at, at + 11)
        = "    " \o NodeIdAt(document, clauses, k) \o " --> "
            \o NodeIdAt(document, clauses, k + 1) \o "\n"

\* document is the header, one node line for each clause in order, then
\* exactly edges edge lines, the k-th from node k to node k + 1
IsLinearChain(document, clauses, edges) ==
  /\ StartsWith(document, FallbackHeader)
  /\ \A i \in 1..Len(clauses) : IsNodeLine(document, clauses, i)
  /\ Len(document) = EdgeLineStart(clauses, 1) - 1 + 12 * edges
  /\ \A k \in 1..edges : IsEdgeLine(document, clauses, k)

GraphNodes(document, clauses) ==
  {NodeIdAt(document, clauses, i) : i \in 1..Len(clauses)}

\* its edges: one for each edge line that follows the node lines
GraphEdges(document, clauses) ==
  LET count == (Len(document) - EdgeLineStart(clauses, 1) + 1) \div 12
  IN  {<<CharAt(document, EdgeLineStart(clauses, k) + 4),
         CharAt(document, EdgeLineStart(clauses, k) + 10)>> : k \in 1..count}

\* a graph with a Start node that nothing enters, an End node that nothing
\* leaves, an edge into every other node than Start and an edge out of
\* every other node than End
HasOneStartAndOneEnd(nodes, edges) ==
  \E start \in nodes, end \in nodes :
    /\ \A n \in nodes : (n = start) <=> ~(\E e \in edges : e[2] = n)
    /\ \A n \in nodes : (n = end) <=> ~(\E e \in edges : e[1] = n)

\* C16: the graph of the chain the Fallback Generator emits when no service
\* answers has exactly one Start and one End node, every other node than
\* Start has an incoming edge and every other node than End an outgoing one
C16_FallbackGraphHasStartAndEnd ==
  (pc = "done" /\ apiReply.kind \in {"unreachable", "status", "unparsable"})
    => HasOneStartAndOneEnd(GraphNodes(mermaidCode, phrases),
                            GraphEdges(mermaidCode, phrases))

\* the code of a capital letter
LetterCode(c) ==
  CHOOSE code \in 65..90 : CharAt("ABCDEFGHIJKLMNOPQRSTUVWXYZ", code - 64) = c

\* C17: the identifiers on the node lines of a fallback document are A, B,
\* C, ... in the order of the lines: the first is A, each next one is the
\* letter after the one before, and no two node lines bear the same one
C17_NodeIdsSequential ==
  stage = "generated" =>
    LET n == Len(phrases)
        id(i) == NodeIdAt(res, phrases, i)
    IN  /\ \A i \in 1..n : i = 1 => id(i) = "A"
        /\ \A i \in 1..(n - 1) : LetterCode(id(i + 1)) = LetterCode(id(i)) + 1
        /\ \A i \in 1..n : \A j \in 1..n : i # j => id(i) # id(j)

\* a document with as many nodes as the generator ever makes
C17_Witness ==
  /\ stage = "generated"
  /\ Len(phrases) = MaxPhrases
  /\ NodeIdAt(res, phrases, MaxPhrases) = "E"


\* the level the claim gives to a description of n characters
LevelOf(n) ==
  CASE n > 3000 -> "severe"
    [] 2000 < n /\ n <= 3000 -> "warning"
    [] 1000 < n /\ n <= 2000 -> "info"
    [] n <= 1000 -> Null

\* C18: every edit of the description of a Flowchart sets the warning to
\* Severe above 3000 characters, Warning above 2000 and up to 3000, Info
\* above 1000 and up to 2000, and none up to 1000
C18_WarningLevelByLength ==
  [][(selected = "Flowchart" /\ input' # input)
       => inputWarning' = LevelOf(Len(input'))]_vars

\* a description of exactly 3000 characters stays in the Warning tier
C18_Witness ==
  /\ selected = "Flowchart"
  /\ Len(input) = SevereLimit
  /\ inputWarning = "warning"


\* C19: a step that changes the description or its warning changes nothing
\* else; whatever the warning, the form accepts a submission whenever a type
\* is selected and nothing is loading, a Flowchart generation can start
\* whenever the description is not blank, and a completed submission has
\* stored a document and shows no error
C19_WarningIsAdvisory ==
  /\ [][(input' # input \/ inputWarning' # inputWarning)
          => UNCHANGED <<selected, mermaidCode, loading, error, toast, pc,
                         awaiting, reqInput, reqSelected, phrases,
                         backendReply, apiReply>>]_vars
  /\ []((selected # Null /\ ~loading) => CanSubmit)
  /\ []((selected = "Flowchart" /\ ~loading /\ ~OnlyWhiteSpace(input))
          => ENABLED StartGeneration)
  /\ [](pc = "done" => (Truthy(mermaidCode) /\ error = Null))

\* a description of 3500 characters carries the severe warning and its
\* submission has ended with a stored document
C19_Witness ==
  /\ pc = "done"
  /\ Len(reqInput) = SevereLength
  /\ input = reqInput
  /\ reqSelected = "Flowchart"
  /\ inputWarning = "severe"
  /\ Truthy(mermaidCode)


\* the character at i is neither a separator nor white space
IsContent(text, i) == CharAt(text, i) \notin (Separators \cup WhiteSpace)

\* where the fragments of text that are not blank have their first character
\* other than white space: no such character lies between the separator
\* before (or the beginning of the text) and this one
FragmentStarts(text) ==
  {i \in 1..Len(text) :
     /\ IsContent(text, i)
     /\ \A j \in 1..(i - 1) :
          IsContent(text, j) => \E k \in (j + 1)..(i - 1) : CharAt(text, k) \in Separators}

\* the i-th smallest element of a set of numbers
IthSmallest(S, i) == CHOOSE x \in S : Cardinality({y \in S : y < x}) = i - 1

\* clause stands in text from position at on, and only white space follows
\* it up to the next separator or the end of the text
IsFragmentAt(text, at, clause) ==
  LET end == at + Len(clause) - 1
  IN  /\ Slice(text, at, end) = clause
      /\ \A j \in (end + 1)..Len(text) :
           (\A k \in (end + 1)..j : CharAt(text, k) \notin Separators)
             => CharAt(text, j) \in WhiteSpace

\* C20: the clauses are the fragments between the separators , . ; : in
\* their order in the text, each without white space at its ends; no clause
\* is empty and no fragment that holds more than white space is missing;
\* segmenting the same text again gives the same sequence
C20_ClausesAreTrimmedFragments ==
  /\ stage \in {"segmented", "resegmented"} =>
       /\ Len(phrases) = Cardinality(FragmentStarts(arg))
       /\ \A i \in 1..Len(phrases) :
            /\ phrases[i] # ""
            /\ CharAt(phrases[i], 1) \notin WhiteSpace
            /\ CharAt(phrases[i], Len(phrases[i])) \notin WhiteSpace
            /\ \A k \in 1..Len(phrases[i]) : CharAt(phrases[i], k) \notin Separators
            /\ IsFragmentAt(arg, IthSmallest(FragmentStarts(arg), i), phrases[i])
  /\ stage = "resegmented" => res2 = phrases

\* a text with white space around a clause that has white space inside, an
\* empty fragment, and more than one clause
C20_Witness ==
  /\ stage = "resegmented"
  /\ Len(phrases) >= 2
  /\ \E i \in 1..Len(phrases) : Includes(phrases[i], " ")
  /\ Len(Split(arg, Separators)) > Len(phrases)
  /\ CharAt(arg, 1) \in WhiteSpace


\* the node lines of an emitted document, then its edge lines
EmittedLine(document, i) == LinesOf(document)[i + 1]

\* the shape token of a node line, which follows the identifier
ShapeOf(line, id) ==
  LET rest == From(line, Len("  " \o id) + 1)
  IN  IF StartsWith(rest, "([") THEN "rounded"
      ELSE IF StartsWith(rest, "{") THEN "diamond"
      ELSE IF StartsWith(rest, "[") THEN "rectangle"
      ELSE "none"

\* C21: the emitted document is the header 'graph TD', one line per node in
\* node order, then one line per edge in edge order; the shape of a node
\* line depends only on the kind of the node (the terminals are rounded, two
\* nodes of the same kind have the same shape); an edge with a label is
\* written 'from -->|label| to', and one without as 'from --> to'
C21_EmitterLinesAndShapes ==
  (stage = "emitted" /\ ok) =>
    LET nodes == arg.nodes
        edges == arg.edges
        shape(i) == ShapeOf(EmittedLine(res, i), nodes[i].id)
    IN  /\ Len(LinesOf(res)) = 1 + Len(nodes) + Len(edges) + 1
        /\ LinesOf(res)[1] = "graph TD"
        /\ \A i \in 1..Len(nodes) :
             /\ StartsWith(EmittedLine(res, i), "  " \o nodes[i].id)
             /\ nodes[i].type \in {"input", "output"} => shape(i) = "rounded"
             /\ \A j \in 1..Len(nodes) :
                  nodes[i].type = nodes[j].type => shape(i) = shape(j)
        /\ \A k \in 1..Len(edges) :
             EmittedLine(res, Len(nodes) + k)
               = "  " \o edges[k].source
                   \o (IF Truthy(edges[k].label)
                         THEN " -->|" \o edges[k].label \o "| " ELSE " --> ")
                   \o edges[k].target


\* the nodes of a graph that have the given kind, as positions
NodesOfKind(graph, kind) ==
  {i \in 1..Len(graph.nodes) : graph.nodes[i].kind = kind}

\* C22: a description of steps without a condition becomes a 'graph TD'
\* document whose graph is Start, one Process node per step in order, End,
\* each joined to the next by one unlabelled edge; the three steps of
\* Scenario B are labelled Collect User Data, Validate Input, Save To Database
C22_StepsBecomeLinearChain ==
  (stage = "converted" /\ ~Includes(ToLower(arg), "if")) =>
    LET nodes == res2.nodes
        edges == res2.edges
        steps == Len(Clauses(arg))
    IN  /\ StartsWith(res, "graph TD\n")
        /\ Len(nodes) = steps + 2
        /\ NodesOfKind(res2, "start") = {1}
        /\ NodesOfKind(res2, "end") = {steps + 2}
        /\ NodesOfKind(res2, "process") = 2..(steps + 1)
        /\ Len(edges) = steps + 1
        /\ \A i \in 1..Len(edges) :
             edges[i] = [from |-> nodes[i].id, to |-> nodes[i + 1].id, label |-> ""]
        /\ \A i \in 2..(steps + 1) :
             Includes(res, nodes[i].id \o "[\"" \o nodes[i].label \o "\"]\n")
        /\ arg = SequenceText =>
             [i \in 1..3 |-> nodes[i + 1].label]
               = <<"Collect User Data", "Validate Input", "Save To Database">>

C22_Witness ==
  /\ stage = "converted"
  /\ arg = SequenceText
  /\ Len(res2.nodes) = 5
  /\ Includes(res, "[\"Collect User Data\"]")

\* the conditional descriptions with what their branches should be labelled
BranchCases ==
  {[text |-> BranchText, condition |-> "credentials valid",
    consequence |-> "Grant Access", alternative |-> "Show Error"],
   [text |-> "if ok then go else stop", condition |-> "ok",
    consequence |-> "Go", alternative |-> "Stop"],
   [text |-> "system will if ok then go else stop", condition |-> "ok",
    consequence |-> "Go", alternative |-> "Stop"]}

\* the edges of a graph that leave the node named id with the given label
EdgesFrom(graph, id, label) ==
  {i \in 1..Len(graph.edges) :
     graph.edges[i].from = id /\ graph.edges[i].label = label}

\* the label of the node named id
LabelOf(graph, id) ==
  LET i == CHOOSE k \in 1..Len(graph.nodes) : graph.nodes[k].id = id
  IN  graph.nodes[i].label

FillerWords == {"system", "will", "user", "must", "to", "first", "then", "finally"}

\* a label made of words that each begin with something else than a small
\* letter
IsTitleCased(label) ==
  \A i \in 1..Len(WordsOf(label)) :
    ~Includes(LowerLetters, CharAt(WordsOf(label)[i], 1))

\* a ends with b
EndsWith(a, b) == Len(b) <= Len(a) /\ From(a, Len(a) - Len(b) + 1) = b

\* C24: the label of every clause is neither null nor empty, is title-cased,
\* is the end of the clause or its first word, and begins with a filler
\* pattern only when the clause holds nothing but filler words; the three clauses of the tests give Process
\* Payment, Enter Credentials and Validate User Input
C24_LabelsAreNormalizedAndNonEmpty ==
  stage = "extracted" =>
    /\ \A i \in 1..Len(phrases) :
         LET label == res2[i]
             words == WordsOf(phrases[i])
         IN  /\ label # Null
             /\ Len(label) > 0
             /\ IsTitleCased(label)
             /\ \/ EndsWith(ToLower(Phrase(words, 1, Len(words))), ToLower(label))
                \/ ToLower(label) = ToLower(words[1])
             /\ (\E k \in 1..Len(words) : ToLower(words[k]) \notin FillerWords)
                  => FillerAt(WordsOf(label), 1) = {}
    /\ arg = "system will process payment" => res2 = <<"Process Payment">>
    /\ arg = "user must enter credentials" => res2 = <<"Enter Credentials">>
    /\ arg = "to validate user input" => res2 = <<"Validate User Input">>

C24_Witness ==
  /\ stage = "extracted"
  /\ arg = "system will process payment"
  /\ res2 = <<"Process Payment">>

C24_FallbackWitness ==
  /\ stage = "extracted"
  /\ arg = "to "
  /\ res2 = <<"To">>

\* C25: whatever the input and whatever the API replied, parseFlowchartInput
\* resolves to a non-empty text that, trimmed, begins with 'flowchart' or
\* 'graph'
C25_ParserAlwaysReturnsDiagram ==
  stage = "parsed" =>
    /\ res # Null
    /\ Len(res) > 0
    /\ \E header \in {"flowchart", "graph"} :
         Slice(Trim(res), 1, Len(header)) = header

C25_Witness ==
  /\ stage = "parsed"
  /\ apiReply.kind = "unreachable"
  /\ Len(phrases) > 1
  /\ Slice(res, 1, 13) = "flowchart TD\n"

C25_RejectedTextWitness ==
  /\ stage = "parsed"
  /\ apiReply = [kind |-> "body", text |-> "Sorry"]
  /\ Slice(res, 1, 13) = "flowchart TD\n"

C25_AcceptedTextWitness ==
  /\ stage = "parsed"
  /\ apiReply.kind = "body"
  /\ res = "\n  graph LR\nA --> B"

\* a step in which handleSubmit passes its guard and starts a generation
Submitted == awaiting' = awaiting + 1

\* a step in which createFlowchartFromBackend is called
BackendCalled == pc # "awaitBackend" /\ pc' = "awaitBackend"

\* a step in which parseFlowchartInput is invoked
ParserInvoked == pc # "awaitApi" /\ pc' = "awaitApi"

\* a step in which the pending backend call settles
BackendSettled == pc = "awaitBackend" /\ pc' # "awaitBackend"

\* the order of the calls within one step of a submission
CallsInOrder ==
  /\ Submitted =>
       IF selected = "Flowchart" THEN BackendCalled /\ pc' # "awaitApi"
       ELSE ParserInvoked /\ ~BackendCalled
  /\ BackendCalled => (Submitted /\ selected = "Flowchart")
  /\ ParserInvoked =>
       IF reqSelected' = "Flowchart"
         THEN BackendSettled /\ CreateFlowchartFromBackend(backendReply').thrown
       ELSE Submitted
  /\ BackendSettled =>
       IF CreateFlowchartFromBackend(backendReply').thrown
         THEN ParserInvoked ELSE pc' = "done"
  /\ pc = "awaitApi" => pc' \in {"awaitApi", "done"}

\* C26: a Flowchart submission calls the backend first and invokes
\* parseFlowchartInput only when that call has failed, never when it has
\* succeeded; a submission of any other type never calls the backend and
\* invokes parseFlowchartInput once, at once
C26_BackendBeforeParser == [][CallsInOrder]_vars

C26_Witness ==
  /\ pc = "awaitApi"
  /\ reqSelected = "Flowchart"
  /\ backendReply.kind = "status"

C26_SuccessWitness ==
  /\ pc = "done"
  /\ reqSelected = "Flowchart"
  /\ backendReply.kind = "body"
  /\ apiReply = NoReply

C26_OtherTypeWitness ==
  /\ pc = "done"
  /\ reqSelected \notin {"Flowchart", Null}
  /\ backendReply = NoReply
  /\ apiReply # NoReply

\* C27: ProtectedRoute takes the user to be authenticated exactly when the
\* most recent login or logout that succeeded was a login
C27_AuthenticatedIffLastWasLogin ==
  IsAuthenticated(storage) <=> lastAuth = "login"

\* C28: the page of a protected route is rendered only while a token is
\* stored; when a protected path is asked for with no token stored, its page
\* is not rendered and the location is /login with the path asked for in its
\* state
C28_ProtectedPagesNeedToken ==
  /\ rendered \in ProtectedPages => Truthy(storage["token"])
  /\ (requested \in ProtectedPaths /\ ~Truthy(storage["token"])) =>
       /\ rendered = "Login"
       /\ location = [pathname |-> "/login", from |-> requested]

C28_Witness ==
  /\ requested = "/about"
  /\ ~Truthy(storage["token"])
  /\ location = [pathname |-> "/login", from |-> "/about"]

C28_RenderedWitness ==
  /\ requested = "/contact"
  /\ rendered = "Contact"
  /\ storage["token"] = "t1"
====
